---- MODULE Spec2Model ----
(***************************************************************************)
(* A model of pymc4's model engine (pymc4/_model.py) and of its syntax     *)
(* rewrite pipeline (pymc4/ast_compiler.py).                               *)
(*                                                                         *)
(* Spec         : ModelTemplate.configure, Model.make_log_prob_function,   *)
(*                Model.forward_sample and Model.observe, with the         *)
(*                template function interpreted one statement at a time.   *)
(* SpecRewrite  : model(auto_name).wrap, uncompile, parse_snippet and      *)
(*                recompile applied to bounded function objects.           *)
(***************************************************************************)
EXTENDS Integers, Sequences, FiniteSets, TLC

VARIABLES ctxs, rvs, models, dicts, stack, frames, exc, outcome, nops,
          func, result

engineVars == <<ctxs, rvs, models, dicts, stack, frames, exc, outcome, nops>>
rewriteVars == <<func, result>>
vars == <<ctxs, rvs, models, dicts, stack, frames, exc, outcome, nops, func, result>>

(***************************************************************************)
(* Bounds.                                                                 *)
(***************************************************************************)
\* number of top-level calls made by the user of the library
MaxOps == 3
\* longest tuple of positional values handed to a log-probability function
MaxArgs == 2

\* values a caller can provide for a variable
Values == {1, 2}
\* the value the numerical backend draws for a variable that samples freely
Sampled == 0
\* the argument a template is configured with
TemplateArgs == {1, 2}
\* keys and values of observations
ObsKeys == {"y", "z"}

Last(s) == s[Len(s)]
Front(s) == SubSeq(s, 1, Len(s) - 1)

RECURSIVE SumSeq(_)
SumSeq(s) == IF s = <<>> THEN 0 ELSE s[1] + SumSeq(Tail(s))

(***************************************************************************)
(* User template functions.  A template function is a straight-line body   *)
(* whose statements construct a random variable, raise, or configure       *)
(* another template (inside try/except when catch is TRUE).  The body may  *)
(* depend on the argument the template is called with.                     *)
(***************************************************************************)
Var(n) == [kind |-> "var", name |-> n, template |-> "", catch |-> FALSE]
Raise == [kind |-> "raise", name |-> "", template |-> "", catch |-> FALSE]
Call(t, c) == [kind |-> "call", name |-> "", template |-> t, catch |-> c]

Templates == {"flat", "nested", "failing", "catching"}

Body(t, a) ==
    CASE t = "flat" -> IF a = 1 THEN <<Var("a")>> ELSE <<Var("a"), Var("b")>>
      [] t = "nested" -> <<Var("a"), Call("flat", FALSE), Var("c")>>
      [] t = "failing" -> <<Var("a"), Raise>>
      [] t = "catching" -> <<Var("a"), Call("failing", a = 1), Var("b")>>
      [] OTHER -> <<>>

(***************************************************************************)
(* Python values that may sit in expected_vars: a string and an object     *)
(* reference never compare equal.                                          *)
(***************************************************************************)
PyStr(s) == [tag |-> "str", str |-> s, ref |-> 0]
PyRef(r) == [tag |-> "object", str |-> "", ref |-> r]

(***************************************************************************)
(* contexts (_template_contexts): the context stack and the two capture    *)
(* contexts.                                                               *)
(***************************************************************************)
ForwardContext ==
    [kind |-> "forward", vars |-> <<>>, expected_vars |-> <<>>, provided_values |-> <<>>]

\* InferenceContext(args, expected_vars=...): lengths are validated at construction
ContextMismatch(args, expected) == Len(args) # Len(expected)

InferenceContext(args, expected) ==
    [kind |-> "inference", vars |-> <<>>, expected_vars |-> expected, provided_values |-> args]

\* __enter__ pushes the context, __exit__ pops it
EnterCtx(st, c) == Append(st, c)
ExitCtx(st) == IF st = <<>> THEN st ELSE Front(st)
CurrentCtx(st) == IF st = <<>> THEN 0 ELSE Last(st)

\* position of a name in expected_vars, 0 when absent
RECURSIVE IndexOf(_, _, _)
IndexOf(x, s, i) ==
    IF i > Len(s) THEN 0 ELSE IF s[i] = x THEN i ELSE IndexOf(x, s, i + 1)

\* the realized value of a variable constructed under context c:
\* bound to the provided value when its name is expected, sampled otherwise
BoundValues(c, name) ==
    IF c.kind = "inference" /\ IndexOf(PyStr(name), c.expected_vars, 1) # 0
    THEN {c.provided_values[IndexOf(PyStr(name), c.expected_vars, 1)]}
    ELSE {Sampled}

\* construction registers the variable with the top of the stack
Register(cs, st, r) ==
    [cs EXCEPT ![CurrentCtx(st)].vars = Append(@, r)]

\* var.log_prob() reduced to a scalar: a function of the name and the value
NameCode(n) == CASE n = "a" -> 1 [] n = "b" -> 2 [] n = "c" -> 3 [] OTHER -> 0
LogProbOf(v) == 10 * NameCode(v.name) + v.value

(***************************************************************************)
(* _model.py                                                               *)
(***************************************************************************)
\* the with statement: __exit__ runs on every way out of the block
WithExitLeaky(st, raised) == IF raised THEN st ELSE ExitCtx(st)
WithExit(st, raised) == ExitCtx(st)

\* Model._evaluate: the template function applied to the saved arguments
Evaluate(m) == Body(m.template, m.template_args)

\* log_prob: expected_vars=self._forward_context.vars
ExpectedVarsNone(m) == <<>>
ExpectedVars(m) == [i \in 1..Len(ctxs[m.forward_context].vars) |->
                        PyRef(ctxs[m.forward_context].vars[i])]

\* log_prob: `with context:` enters the context just constructed
LogProbEnteredStored(m, fresh) == m.forward_context
LogProbEntered(m, fresh) == fresh

\* forward_sample: the with block calls no template function
ForwardSampleBodyReexec(m) == Evaluate(m)
ForwardSampleBody(m) == <<>>

\* {var.name: var.as_tensor() for var in context.vars}: an ordered mapping,
\* a repeated key keeps its first position and takes the last value
RECURSIVE DictOf(_, _)
DictOf(pairs, acc) ==
    IF pairs = <<>> THEN acc
    ELSE LET p == pairs[1]
             at == IndexOf(p[1], [i \in 1..Len(acc) |-> acc[i][1]], 1)
         IN DictOf(Tail(pairs),
                   IF at = 0 THEN Append(acc, p) ELSE [acc EXCEPT ![at] = p])

Samples(c) == DictOf([i \in 1..Len(c.vars) |->
                        <<rvs[c.vars[i]].name, rvs[c.vars[i]].value>>], <<>>)

\* dict.update(kwargs)
DictUpdate(d, kw) ==
    [k \in DOMAIN d \cup DOMAIN kw |-> IF k \in DOMAIN kw THEN kw[k] ELSE d[k]]

\* copy.copy(self): a new Model whose attributes are the same references
ShallowCopy(m) == m

NoOutcome == [op |-> "none", status |-> "none", model |-> 0, result |-> 0,
              args |-> <<>>, kw |-> <<>>, ctx |-> 0, ctxs0 |-> <<>>, rvs0 |-> 0,
              dicts0 |-> <<>>, rvs1 |-> 0, value |-> 0, samples |-> <<>>]

EngineInit ==
    /\ ctxs = <<>>
    /\ rvs = <<>>
    /\ models = <<>>
    /\ dicts = <<>>
    /\ stack = <<>>
    /\ frames = <<>>
    /\ exc = "none"
    /\ outcome = NoOutcome
    /\ nops = 0

Idle == frames = <<>> /\ exc = "none"

\* the activation of one operation: the model it works on, the statements it
\* still has to run, the context it entered and the one it constructed
Frame(op, m, mid, body, entered, made, args) ==
    [op |-> op, m |-> m, model |-> mid, body |-> body, pc |-> 1,
     ctx |-> entered, made |-> made, args |-> args,
     stack0 |-> stack, ctxs0 |-> ctxs, rvs0 |-> Len(rvs), dicts0 |-> dicts]

Running == frames # <<>> /\ exc = "none"
Top == Last(frames)
AtEnd(f) == f.pc > Len(f.body)
Advance(fs) == [fs EXCEPT ![Len(fs)].pc = @ + 1]

\* ModelTemplate.configure up to the call of model._evaluate(): a Forward
\* Context is entered and a Model with an empty observation map is built
EnterConfigure(t, a) ==
    LET c == Len(ctxs) + 1
        m == [template |-> t, template_args |-> a, forward_context |-> c,
              observations |-> Len(dicts) + 1, vars0 |-> <<>>]
    IN /\ ctxs' = Append(ctxs, ForwardContext)
       /\ dicts' = Append(dicts, <<>>)
       /\ stack' = EnterCtx(stack, c)
       /\ frames' = Append(frames, Frame("configure", m, 0, Evaluate(m), c, c, <<>>))

\* template.configure(a) called by the user
Configure(t, a) ==
    /\ Idle
    /\ nops < MaxOps
    /\ EnterConfigure(t, a)
    /\ nops' = nops + 1
    /\ UNCHANGED <<rvs, models, exc, outcome, func, result>>

\* a template function configures another template
StepCall ==
    /\ Running
    /\ ~AtEnd(Top)
    /\ Top.body[Top.pc].kind = "call"
    /\ EnterConfigure(Top.body[Top.pc].template, 1)
    /\ UNCHANGED <<rvs, models, exc, outcome, nops, func, result>>

\* a template function constructs a random variable, which registers itself
\* with the current context
StepVar ==
    /\ Running
    /\ ~AtEnd(Top)
    /\ Top.body[Top.pc].kind = "var"
    /\ \E v \in BoundValues(ctxs[CurrentCtx(stack)], Top.body[Top.pc].name) :
          rvs' = Append(rvs, [name |-> Top.body[Top.pc].name, value |-> v,
                              by |-> Top.ctx,
                              forced |-> ctxs[CurrentCtx(stack)].kind = "inference"
                                  /\ IndexOf(PyStr(Top.body[Top.pc].name),
                                             ctxs[CurrentCtx(stack)].expected_vars, 1) # 0])
    /\ ctxs' = Register(ctxs, stack, Len(rvs) + 1)
    /\ frames' = Advance(frames)
    /\ UNCHANGED <<models, dicts, stack, exc, outcome, nops, func, result>>

\* a template function raises
StepRaise ==
    /\ Running
    /\ ~AtEnd(Top)
    /\ Top.body[Top.pc].kind = "raise"
    /\ exc' = "TemplateError"
    /\ UNCHANGED <<ctxs, rvs, models, dicts, stack, frames, outcome, nops, func, result>>

\* log_prob(*args): sum(tf.reduce_sum(var.log_prob()) for var in context.vars)
LogProbSum(c) == SumSeq([i \in 1..Len(c.vars) |-> LogProbOf(rvs[c.vars[i]])])

Done(f, status) ==
    [op |-> f.op, status |-> status, model |-> f.model, result |-> 0,
     args |-> f.args, kw |-> <<>>, ctx |-> f.ctx, ctxs0 |-> f.ctxs0, rvs0 |-> f.rvs0,
     dicts0 |-> f.dicts0, rvs1 |-> Len(rvs), value |-> 0, samples |-> <<>>]

\* the operation on top returns: its with block is left and the result is
\* handed to the caller
Return ==
    /\ Running
    /\ AtEnd(Top)
    /\ stack' = WithExit(stack, FALSE)
    /\ IF Len(frames) > 1
       THEN /\ frames' = Advance(Front(frames))
            /\ UNCHANGED <<models, outcome>>
       ELSE /\ frames' = <<>>
            /\ CASE Top.op = "configure" ->
                      /\ models' = Append(models,
                            [Top.m EXCEPT !.vars0 = ctxs[Top.ctx].vars])
                      /\ outcome' = [Done(Top, "ok") EXCEPT !.result = Len(models) + 1]
                 [] Top.op = "log_prob" ->
                      /\ outcome' = [Done(Top, "ok") EXCEPT
                                        !.value = LogProbSum(ctxs[Top.made]),
                                        !.ctx = Top.made]
                      /\ UNCHANGED models
                 [] OTHER ->
                      /\ outcome' = [Done(Top, "ok") EXCEPT
                                        !.samples = Samples(ctxs[Top.ctx])]
                      /\ UNCHANGED models
    /\ UNCHANGED <<ctxs, rvs, dicts, exc, nops, func, result>>

\* an exception leaves the operation on top: its with block is left, and the
\* caller either catches it or goes on unwinding
Unwind ==
    /\ frames # <<>>
    /\ exc # "none"
    /\ stack' = WithExit(stack, TRUE)
    /\ IF Len(frames) = 1
       THEN /\ frames' = <<>>
            /\ exc' = "none"
            /\ outcome' = Done(Top, "raised")
       ELSE LET caller == frames[Len(frames) - 1]
            IN IF caller.body[caller.pc].catch
               THEN /\ frames' = Advance(Front(frames))
                    /\ exc' = "none"
                    /\ UNCHANGED outcome
               ELSE /\ frames' = Front(frames)
                    /\ UNCHANGED <<exc, outcome>>
    /\ UNCHANGED <<ctxs, rvs, models, dicts, nops, func, result>>

ArgTuples == UNION {[1..n -> Values] : n \in 0..MaxArgs}

\* model.make_log_prob_function()(*args) called by the user
LogProb(mid, args) ==
    /\ Idle
    /\ nops < MaxOps
    /\ nops' = nops + 1
    /\ LET m == models[mid]
           fresh == Len(ctxs) + 1
       IN IF ContextMismatch(args, ExpectedVars(m))
          THEN /\ outcome' = [NoOutcome EXCEPT !.op = "log_prob",
                                 !.status = "ContextMismatch", !.model = mid,
                                 !.args = args, !.ctxs0 = ctxs, !.rvs0 = Len(rvs),
                                 !.rvs1 = Len(rvs), !.dicts0 = dicts]
               /\ UNCHANGED <<ctxs, stack, frames>>
          ELSE /\ ctxs' = Append(ctxs, InferenceContext(args, ExpectedVars(m)))
               /\ stack' = EnterCtx(stack, LogProbEntered(m, fresh))
               /\ frames' = <<Frame("log_prob", m, mid, Evaluate(m),
                                    LogProbEntered(m, fresh), fresh, args)>>
               /\ UNCHANGED outcome
    /\ UNCHANGED <<rvs, models, dicts, exc, func, result>>

\* model.forward_sample() called by the user
ForwardSample(mid) ==
    /\ Idle
    /\ nops < MaxOps
    /\ nops' = nops + 1
    /\ LET m == models[mid]
       IN /\ stack' = EnterCtx(stack, m.forward_context)
          /\ frames' = <<Frame("forward_sample", m, mid, ForwardSampleBody(m),
                               m.forward_context, m.forward_context, <<>>)>>
    /\ UNCHANGED <<ctxs, rvs, models, dicts, exc, outcome, func, result>>

Kwargs == UNION {[S -> Values] : S \in SUBSET ObsKeys}

\* model.observe(**kw) called by the user
Observe(mid, kw) ==
    /\ Idle
    /\ nops < MaxOps
    /\ nops' = nops + 1
    /\ LET model == ShallowCopy(models[mid])
       IN /\ models' = Append(models, model)
          /\ dicts' = [dicts EXCEPT ![model.observations] = DictUpdate(@, kw)]
    /\ outcome' = [NoOutcome EXCEPT !.op = "observe", !.status = "ok", !.model = mid,
                      !.result = Len(models) + 1, !.kw = kw, !.ctxs0 = ctxs,
                      !.rvs0 = Len(rvs), !.rvs1 = Len(rvs), !.dicts0 = dicts]
    /\ UNCHANGED <<ctxs, rvs, stack, frames, exc, func, result>>

Next ==
    \/ \E t \in Templates, a \in TemplateArgs : Configure(t, a)
    \/ StepCall
    \/ StepVar
    \/ StepRaise
    \/ Return
    \/ Unwind
    \/ \E mid \in 1..Len(models), args \in ArgTuples : LogProb(mid, args)
    \/ \E mid \in 1..Len(models) : ForwardSample(mid)
    \/ \E mid \in 1..Len(models), kw \in Kwargs : Observe(mid, kw)

(***************************************************************************)
(* The syntax rewrite pipeline.                                            *)
(*                                                                         *)
(* Identifiers are sequences of characters.  A function object is its code *)
(* object together with the source text the code was compiled from, the    *)
(* text being described by what parsing it yields.                         *)
(***************************************************************************)
\* most characters in the identifiers a function refers to, taken together
MaxNameChars == 6
\* most statements in a function body
MaxStmts == 2

Letters == {"a", "F"}
IdChars == {"_", "a"}
\* the lists of identifiers that take at most n characters together
RECURSIVE NameLists(_)
NameLists(n) ==
    {<<>>} \cup UNION {UNION {{<<id>> \o rest : rest \in NameLists(n - k)} :
                                id \in [1..k -> IdChars]} : k \in 1..n}
\* the local variables of a function: none, or a private one
LocalLists == {<<>>, <<(<<"_", "_", "a">>)>>}
\* the class a function is defined in; <<>> for a module-level function
Classes == {<<>>, <<"F">>}

\* the compiler's private-name mangling inside a class body
PyMangle(klass, id) ==
    IF /\ klass # <<>>
       /\ Len(id) > 2
       /\ id[1] = "_" /\ id[2] = "_"
       /\ ~(id[Len(id)] = "_" /\ id[Len(id) - 1] = "_")
    THEN <<"_">> \o klass \o id
    ELSE id

MangleAll(klass, ids) == [i \in 1..Len(ids) |-> PyMangle(klass, ids[i])]

(* statements of a function body *)
Target(k, id) == [kind |-> k, id |-> id]
CallExpr(kws) == [kind |-> "Call", keywords |-> kws]
NumExpr == [kind |-> "Num", keywords |-> <<>>]
Keyword(a, v) == [arg |-> a, value |-> v]

TargetLists == {<<Target("Name", "x")>>,
                <<Target("Name", "x"), Target("Name", "y")>>,
                <<Target("Tuple", "x")>>,
                <<Target("Attribute", "x")>>,
                <<Target("Subscript", "x")>>}
Exprs == {CallExpr(<<>>), CallExpr(<<Keyword("name", "given")>>),
          CallExpr(<<Keyword("shape", "given")>>), NumExpr}
Stmts == [kind : {"Assign"}, targets : TargetLists, value : Exprs]
            \cup [kind : {"Expr"}, targets : {<<>>}, value : Exprs]
Bodies == UNION {[1..n -> Stmts] : n \in 1..MaxStmts}

PlainBody == <<[kind |-> "Assign", targets |-> <<Target("Name", "x")>>,
                value |-> CallExpr(<<>>)]>>

\* the source text of a function, by what it parses to, and whether
\* inspect.getsourcelines can read it
Source(readable, kind, klass, ids, locals, stmts) ==
    [readable |-> readable, kind |-> kind, klass |-> klass, name |-> "f",
     ids |-> ids, locals |-> locals, stmts |-> stmts]

\* the function object the interpreter built from that source
Function(src, isLambda, nested, freevars, filename, firstlineno) ==
    [code |-> [co_name |-> IF isLambda THEN "<lambda>" ELSE src.name,
               co_filename |-> filename,
               co_nested |-> nested,
               co_freevars |-> freevars,
               co_firstlineno |-> firstlineno,
               co_names |-> MangleAll(src.klass, src.ids),
               co_varnames |-> MangleAll(src.klass, src.locals),
               stmts |-> src.stmts],
     src |-> src]

NoFunc == Function(Source(TRUE, "FunctionDef", <<>>, <<>>, <<>>, <<>>),
                   FALSE, FALSE, FALSE, "model.py", 1)

\* re.match('^(_[A-Za-z][A-Za-z0-9_]*)__.*$', name).group(1), <<>> when there
\* is no match; the starred group is greedy
PrefixEnds(name) ==
    {k \in 2..(Len(name) - 2) :
        /\ name[1] = "_"
        /\ name[2] \in Letters
        /\ name[k + 1] = "_"
        /\ name[k + 2] = "_"}

MatchPrefix(name) ==
    IF PrefixEnds(name) = {} THEN <<>>
    ELSE SubSeq(name, 1, CHOOSE k \in PrefixEnds(name) : \A j \in PrefixEnds(name) : j <= k)

\* the loop over c.co_names that stops at the first match
RECURSIVE FindPrefix(_)
FindPrefix(names) ==
    IF names = <<>> THEN <<>>
    ELSE IF MatchPrefix(names[1]) # <<>> THEN MatchPrefix(names[1])
         ELSE FindPrefix(Tail(names))

\* uncompile(c)
uncompile(f) ==
    LET c == f.code
        fail(e) == [status |-> e, source |-> f.src, filename |-> c.co_filename,
                    firstlineno |-> 0, privateprefix |-> <<>>]
    IN IF c.co_nested \/ c.co_freevars THEN fail("Unsupported")
       ELSE IF c.co_name = "<lambda>" THEN fail("Unsupported")
       ELSE IF c.co_filename = "<string>" THEN fail("Unsupported")
       ELSE IF ~f.src.readable THEN fail("NoSource")
       ELSE [status |-> "ok", source |-> f.src, filename |-> c.co_filename,
             firstlineno |-> c.co_firstlineno, privateprefix |-> FindPrefix(c.co_names)]

\* parse_snippet(source, filename, mode, flags, firstlineno): the snippet is
\* compiled behind a one-line prefix, which puts the definition on line 2,
\* and the line numbers are then shifted by firstlineno - 2
PrefixLines == 1
parse_snippet(source, firstlineno) ==
    [kind |-> source.kind, name |-> source.name,
     lineno |-> (1 + PrefixLines) + (firstlineno - 2),
     ids |-> source.ids, locals |-> source.locals, stmts |-> source.stmts]

\* AutoNameTransformer().visit(tree)
HasKeyword(call, a) == \E i \in 1..Len(call.keywords) : call.keywords[i].arg = a

AutoNameStmt(st) ==
    IF /\ st.kind = "Assign"
       /\ Len(st.targets) = 1
       /\ st.targets[1].kind = "Name"
       /\ st.value.kind = "Call"
       /\ ~HasKeyword(st.value, "name")
    THEN [st EXCEPT !.value.keywords = Append(@, Keyword("name", st.targets[1].id))]
    ELSE st

AutoNameTransformer(tree) ==
    [tree EXCEPT !.stmts = [i \in 1..Len(tree.stmts) |-> AutoNameStmt(tree.stmts[i])]]

\* re.compile('^__.*(?<!__)$').match
isprivate(name) ==
    /\ Len(name) >= 2
    /\ name[1] = "_" /\ name[2] = "_"
    /\ ~(name[Len(name)] = "_" /\ name[Len(name) - 1] = "_")

fixnames(privateprefix, names) ==
    [i \in 1..Len(names) |->
        IF isprivate(names[i]) THEN privateprefix \o names[i] ELSE names[i]]

\* compile(a, filename, mode, flags, True).co_consts: the code objects of the
\* module that defines the function, compiled outside any class
CompiledConsts(tree, filename) ==
    <<[co_name |-> tree.name, co_filename |-> filename, co_nested |-> FALSE,
       co_freevars |-> FALSE, co_firstlineno |-> tree.lineno,
       co_names |-> tree.ids, co_varnames |-> tree.locals, stmts |-> tree.stmts]>>

\* recompile(source, filename, mode, flags, firstlineno, privateprefix)
recompile(tree, filename, privateprefix) ==
    LET consts == CompiledConsts(tree, filename)
        found == {i \in 1..Len(consts) :
                     /\ consts[i].co_name = tree.name
                     /\ consts[i].co_firstlineno = tree.lineno}
        c == consts[CHOOSE i \in found : \A j \in found : i <= j]
    IN IF tree.kind # "FunctionDef"
       THEN [status |-> "Error", code |-> consts[1]]
       ELSE IF found = {}
       THEN [status |-> "Error", code |-> consts[1]]
       ELSE IF privateprefix # <<>>
       THEN [status |-> "ok",
             code |-> [c EXCEPT !.co_names = fixnames(privateprefix, c.co_names),
                                !.co_varnames = fixnames(privateprefix, c.co_varnames)]]
       ELSE [status |-> "ok", code |-> c]

\* model(auto_name).wrap(func): the outcome, the stages that ran, the code
\* the function has afterwards and whether a ModelTemplate was returned
Outcome(status, stages, code, templated) ==
    [status |-> status, stages |-> stages, code |-> code, template |-> templated]

wrapPatchEarly(f, auto_name) ==
    IF ~auto_name THEN Outcome("ok", <<>>, f.code, TRUE)
    ELSE LET unc == uncompile(f)
             tree == AutoNameTransformer(parse_snippet(unc.source, unc.firstlineno))
             rec == recompile(tree, unc.filename, unc.privateprefix)
         IN IF unc.status # "ok"
            THEN Outcome(unc.status, <<"uncompile">>, f.code, FALSE)
            ELSE IF rec.status # "ok"
            THEN Outcome(rec.status, <<"uncompile", "parse", "transform", "patch", "recompile">>,
                         rec.code, FALSE)
            ELSE Outcome("ok", <<"uncompile", "parse", "transform", "patch", "recompile">>,
                         rec.code, TRUE)

wrapNoTransform(f, auto_name) ==
    IF ~auto_name THEN Outcome("ok", <<>>, f.code, TRUE)
    ELSE LET unc == uncompile(f)
             tree == parse_snippet(unc.source, unc.firstlineno)
             rec == recompile(tree, unc.filename, unc.privateprefix)
         IN IF unc.status # "ok"
            THEN Outcome(unc.status, <<"uncompile">>, f.code, FALSE)
            ELSE IF rec.status # "ok"
            THEN Outcome(rec.status, <<"uncompile", "parse", "recompile">>, f.code, FALSE)
            ELSE Outcome("ok", <<"uncompile", "parse", "recompile", "patch">>,
                         rec.code, TRUE)

wrap(f, auto_name) ==
    IF ~auto_name THEN Outcome("ok", <<>>, f.code, TRUE)
    ELSE LET unc == uncompile(f)
             tree == AutoNameTransformer(parse_snippet(unc.source, unc.firstlineno))
             rec == recompile(tree, unc.filename, unc.privateprefix)
         IN IF unc.status # "ok"
            THEN Outcome(unc.status, <<"uncompile">>, f.code, FALSE)
            ELSE IF rec.status # "ok"
            THEN Outcome(rec.status, <<"uncompile", "parse", "transform", "recompile">>,
                         f.code, FALSE)
            ELSE Outcome("ok", <<"uncompile", "parse", "transform", "recompile", "patch">>,
                         rec.code, TRUE)

\* recompile(*uncompile(func.__code__)): the round trip without a transform
roundtrip(f) ==
    LET unc == uncompile(f)
        rec == recompile(parse_snippet(unc.source, unc.firstlineno),
                         unc.filename, unc.privateprefix)
    IN IF unc.status # "ok"
       THEN Outcome(unc.status, <<"uncompile">>, f.code, FALSE)
       ELSE IF rec.status # "ok"
       THEN Outcome(rec.status, <<"uncompile", "recompile">>, f.code, FALSE)
       ELSE Outcome("ok", <<"uncompile", "recompile">>, rec.code, FALSE)

NoResult == [op |-> "none", auto_name |-> FALSE, orig |-> NoFunc,
             out |-> Outcome("none", <<>>, NoFunc.code, FALSE)]

\* the functions handed to the pipeline: module-level functions and methods
\* referring to a few identifiers, functions of every kind the decompiler
\* tells apart, and functions with every small body
NamedFunctions ==
    {Function(Source(TRUE, "FunctionDef", k, ids, locals, PlainBody),
              FALSE, FALSE, FALSE, "model.py", 1) :
        k \in Classes, ids \in NameLists(MaxNameChars), locals \in LocalLists}

KindedFunctions ==
    {Function(Source(r, kd, <<>>, <<>>, <<>>, PlainBody), l, n, fv, fn, ln) :
        r \in BOOLEAN, kd \in {"FunctionDef", "AsyncFunctionDef"},
        l \in BOOLEAN, n \in BOOLEAN, fv \in BOOLEAN,
        fn \in {"model.py", "<string>"}, ln \in {1, 7}}

BodiedFunctions ==
    {Function(Source(TRUE, "FunctionDef", <<>>, <<>>, <<>>, b),
              FALSE, FALSE, FALSE, "model.py", 7) : b \in Bodies}

RewriteInit ==
    /\ EngineInit
    /\ \/ func \in NamedFunctions
       \/ func \in KindedFunctions
       \/ func \in BodiedFunctions
    /\ result = NoResult

\* @model(auto_name=...) applied to the function
Wrap(auto_name) ==
    /\ result.op = "none"
    /\ result' = [op |-> "wrap", auto_name |-> auto_name, orig |-> func,
                  out |-> wrap(func, auto_name)]
    /\ func' = [func EXCEPT !.code = wrap(func, auto_name).code]
    /\ UNCHANGED engineVars

\* the function's code decompiled and recompiled as it is
RoundTrip ==
    /\ result.op = "none"
    /\ result' = [op |-> "roundtrip", auto_name |-> FALSE, orig |-> func,
                  out |-> roundtrip(func)]
    /\ UNCHANGED <<func, engineVars>>

RewriteNext ==
    \/ \E auto_name \in BOOLEAN : Wrap(auto_name)
    \/ RoundTrip

SpecRewrite == RewriteInit /\ [][RewriteNext]_vars

Init == EngineInit /\ func = NoFunc /\ result = NoResult

Spec == Init /\ [][Next]_vars

(***************************************************************************)
(* Properties of the model engine.                                         *)
(***************************************************************************)
ObsOf(ds, m) == ds[m.observations]
ForwardVars(m) == ctxs[m.forward_context].vars
NamesOf(ids) == [i \in 1..Len(ids) |-> rvs[ids[i]].name]

\* C1: observe(**kw) returns a Model distinct from m whose observation map is
\* m's map extended by kw, and leaves the observation map of m, and of every
\* other Model that existed before the call, as it was.
C1_ObserveCopyOnWrite ==
    (outcome.op = "observe" /\ Idle) =>
        /\ outcome.result # outcome.model
        /\ ObsOf(dicts, models[outcome.result])
              = DictUpdate(ObsOf(outcome.dicts0, models[outcome.model]), outcome.kw)
        /\ \A m \in 1..(outcome.result - 1) :
              ObsOf(dicts, models[m]) = ObsOf(outcome.dicts0, models[m])

\* C2: the context stack holds exactly the contexts of the operations in
\* progress, innermost last: each operation that ends, by return or by
\* exception, pops the context it pushed, the context that was current before
\* is current again, and the stack is empty when no operation is active.
C2_ContextsPopped ==
    /\ Len(stack) = Len(frames)
    /\ \A i \in 1..Len(frames) :
          /\ stack[i] = frames[i].ctx
          /\ frames[i].stack0 = SubSeq(stack, 1, i - 1)
    /\ frames = <<>> => stack = <<>>

C2_Witness ==
    /\ Idle
    /\ outcome.op = "configure"
    /\ outcome.status = "raised"
    /\ Len(ctxs) = Len(outcome.ctxs0) + 2
    /\ stack = <<>>

\* the variables whose constructing template function ran under context c,
\* in construction order
RECURSIVE ConstructedBy(_, _)
ConstructedBy(c, n) ==
    IF n = 0 THEN <<>>
    ELSE IF rvs[n].by = c THEN Append(ConstructedBy(c, n - 1), n)
         ELSE ConstructedBy(c, n - 1)

\* C3: the captured list of every context is exactly the sequence of
\* variables constructed by the evaluation that context was opened for, in
\* construction order: variables of an inner evaluation are in the inner list
\* only, and variables the outer function constructs after the inner scope
\* has exited, normally or by failure, are in the outer list.
C3_CapturesDoNotLeak ==
    \A c \in 1..Len(ctxs) : ctxs[c].vars = ConstructedBy(c, Len(rvs))

C3_Witness ==
    /\ Running
    /\ Len(frames) = 1
    /\ Top.m.template = "catching"
    /\ AtEnd(Top)
    /\ Len(ctxs[Top.ctx].vars) = 2
    /\ \E c \in 1..Len(ctxs) :
          /\ c > Top.ctx
          /\ ctxs[c].vars # <<>>
          /\ ctxs[Top.ctx].vars[1] < ctxs[c].vars[1]
          /\ ctxs[c].vars[1] < ctxs[Top.ctx].vars[2]

VarNames(body) == [i \in 1..Len(SelectSeq(body, LAMBDA ins : ins.kind = "var")) |->
                      SelectSeq(body, LAMBDA ins : ins.kind = "var")[i].name]

\* C4: a log-probability call with values (v1..vk) on a Model whose Forward
\* Context captured n1..nk opens an Inference Context with expected_vars =
\* [n1..nk] and provided_values = (v1..vk), re-evaluates the template once
\* with the saved arguments, forces the variable named ni to vi, and returns
\* the sum of the log-probabilities of the captured variables.
C4_LogProbBinds ==
    (outcome.op = "log_prob" /\ outcome.status = "ok" /\ Idle) =>
        LET m == models[outcome.model]
            c == ctxs[outcome.ctx]
        IN /\ c.kind = "inference"
           /\ c.provided_values = outcome.args
           /\ NamesOf(c.vars) = VarNames(Body(m.template, m.template_args))
           /\ outcome.value = SumSeq([i \in 1..Len(c.vars) |-> LogProbOf(rvs[c.vars[i]])])
           /\ c.expected_vars = [i \in 1..Len(m.vars0) |-> PyStr(rvs[m.vars0[i]].name)]
           /\ \A i \in 1..Len(m.vars0) :
                 \E j \in 1..Len(c.vars) :
                    /\ rvs[c.vars[j]].name = rvs[m.vars0[i]].name
                    /\ rvs[c.vars[j]].value = outcome.args[i]

\* C5: a log-probability call whose number of values differs from the number
\* of variables captured by the Forward Context fails with ContextMismatch
\* when the Inference Context is constructed: no evaluation is ever in
\* progress for such a call, and the failed call has constructed no variable
\* and no context.
C5_MismatchFailsFast ==
    /\ \A i \in 1..Len(frames) :
          frames[i].op = "log_prob" =>
              Len(frames[i].args) = Len(models[frames[i].model].vars0)
    /\ (outcome.op = "log_prob"
            /\ Len(outcome.args) # Len(models[outcome.model].vars0)) =>
          /\ outcome.status = "ContextMismatch"
          /\ outcome.rvs1 = outcome.rvs0
          /\ Idle => (Len(ctxs) = Len(outcome.ctxs0) /\ stack = <<>>)

C5_Witness ==
    /\ outcome.op = "log_prob"
    /\ outcome.status = "ContextMismatch"
    /\ Len(outcome.args) # Len(models[outcome.model].vars0)
    /\ models[outcome.model].vars0 # <<>>

IsFreshInference(c, ctxs0, rvs0) ==
    /\ c > Len(ctxs0)
    /\ ctxs[c].kind = "inference"
    /\ \A i \in 1..Len(ctxs[c].vars) : ctxs[c].vars[i] > rvs0

\* C6: every log-probability call runs under a new Inference Context whose
\* captured list holds only variables constructed during that call, and the
\* captured list of every Model's Forward Context stays what it was when
\* configure returned, whatever calls were made since.
C6_CallsSelfContained ==
    /\ \A m \in 1..Len(models) : ForwardVars(models[m]) = models[m].vars0
    /\ \A i \in 1..Len(frames) :
          frames[i].op = "log_prob" =>
              /\ frames[i].ctx = frames[i].made
              /\ IsFreshInference(frames[i].ctx, frames[i].ctxs0, frames[i].rvs0)
    /\ (outcome.op = "log_prob" /\ outcome.status = "ok") =>
          IsFreshInference(outcome.ctx, outcome.ctxs0, outcome.rvs0)

C6_Witness ==
    /\ Idle
    /\ outcome.op = "log_prob"
    /\ outcome.status = "ok"
    /\ \E c \in 1..Len(ctxs) :
          /\ c # outcome.ctx
          /\ ctxs[c].kind = "inference"
          /\ ctxs[c].vars # <<>>
    /\ ctxs[outcome.ctx].vars # <<>>

\* C10: forward_sample runs no template statement and constructs no
\* variable, leaves the Forward Context's captured list as configure left
\* it, and returns one entry per captured variable, keyed by the variable's
\* name, in construction order.
C10_ForwardSampleReads ==
    /\ \A i \in 1..Len(frames) :
          frames[i].op = "forward_sample" =>
              /\ i = Len(frames)
              /\ Len(rvs) = frames[i].rvs0
              /\ ctxs = frames[i].ctxs0
    /\ outcome.op = "forward_sample" =>
          /\ outcome.status = "ok"
          /\ outcome.rvs1 = outcome.rvs0
          /\ ForwardVars(models[outcome.model]) = models[outcome.model].vars0
          /\ [i \in 1..Len(outcome.samples) |-> outcome.samples[i][1]]
                = NamesOf(models[outcome.model].vars0)

C10_Witness ==
    /\ Idle
    /\ outcome.op = "forward_sample"
    /\ Len(outcome.samples) = 2
    /\ nops = 3

(***************************************************************************)
(* Properties of the rewrite pipeline.                                     *)
(***************************************************************************)
Wrapped == result.op = "wrap" /\ result.auto_name

PipelineStages == <<"uncompile", "parse", "transform", "recompile", "patch">>

\* the function's code is replaced only by a pipeline that ran to its end
PatchedLast ==
    /\ result.out.status # "ok" =>
          /\ func.code = result.orig.code
          /\ ~result.out.template
          /\ \A i \in 1..Len(result.out.stages) : result.out.stages[i] # "patch"
    /\ result.out.status = "ok" =>
          /\ result.out.stages = PipelineStages
          /\ result.out.template
          /\ func.code = result.out.code

\* C7 as claimed: with auto_name, a lambda or nested/closure function fails
\* with Unsupported, a function whose source is unavailable fails with
\* NoSource, a tree that is not a function definition fails with Error, and
\* every failure leaves the function's code as it was and returns no template.
C7_AllOrNothing ==
    Wrapped =>
        LET c == result.orig.code
        IN /\ (c.co_name = "<lambda>" \/ c.co_nested \/ c.co_freevars) =>
                 result.out.status = "Unsupported"
           /\ ~result.orig.src.readable => result.out.status = "NoSource"
           /\ PatchedLast

Rejected(c) ==
    c.co_name = "<lambda>" \/ c.co_nested \/ c.co_freevars \/ c.co_filename = "<string>"

\* C7 as amended: with auto_name, a lambda, a nested/closure function or a
\* function compiled from a string fails with Unsupported; any other function
\* whose source cannot be read fails with NoSource; any other function whose
\* source does not parse to a function definition fails with Error; every
\* failure leaves the function's code as it was and returns no template, and
\* the code is replaced only after uncompile, parse, transform and recompile
\* have succeeded in that order.
C7_AllOrNothingAmended ==
    Wrapped =>
        LET c == result.orig.code
            src == result.orig.src
        IN /\ Rejected(c) => result.out.status = "Unsupported"
           /\ (~Rejected(c) /\ ~src.readable) => result.out.status = "NoSource"
           /\ (~Rejected(c) /\ src.readable /\ src.kind # "FunctionDef") =>
                 result.out.status = "Error"
           /\ (~Rejected(c) /\ src.readable /\ src.kind = "FunctionDef") =>
                 result.out.status = "ok"
           /\ PatchedLast

C7_Witness ==
    /\ Wrapped
    /\ result.out.status = "Error"
    /\ result.orig.src.kind = "AsyncFunctionDef"
    /\ func.code = result.orig.code

\* C8: decompiling and recompiling a supported function without a transform
\* yields code with the same function name, the same first line number and
\* the same referenced names: mangled private names keep their mangled form
\* and every other name is unchanged.
C8_RoundTrip ==
    (result.op = "roundtrip" /\ result.out.status = "ok") =>
        /\ result.out.code.co_name = result.orig.code.co_name
        /\ result.out.code.co_firstlineno = result.orig.code.co_firstlineno
        /\ result.out.code.co_names = result.orig.code.co_names

Qualifies(st) ==
    /\ st.kind = "Assign"
    /\ Len(st.targets) = 1
    /\ st.targets[1].kind = "Name"
    /\ st.value.kind = "Call"
    /\ \A k \in 1..Len(st.value.keywords) : st.value.keywords[k].arg # "name"

\* C9: with auto_name, the call on the right of every assignment with one
\* plain-identifier target and no name argument receives the keyword
\* name=<target identifier> after the arguments it had, and every other
\* statement of the function is what it was.
C9_AutoName ==
    (Wrapped /\ result.out.status = "ok") =>
        LET old == result.orig.code.stmts
            new == func.code.stmts
        IN /\ Len(new) = Len(old)
           /\ \A i \in 1..Len(old) :
                 IF Qualifies(old[i])
                 THEN /\ new[i].kind = "Assign"
                      /\ new[i].targets = old[i].targets
                      /\ new[i].value.kind = "Call"
                      /\ new[i].value.keywords
                            = old[i].value.keywords
                                 \o <<[arg |-> "name", value |-> old[i].targets[1].id]>>
                 ELSE new[i] = old[i]

C9_Witness ==
    /\ Wrapped
    /\ result.out.status = "ok"
    /\ \E i, j \in 1..Len(func.code.stmts) :
          /\ Qualifies(result.orig.code.stmts[i])
          /\ func.code.stmts[i] # result.orig.code.stmts[i]
          /\ result.orig.code.stmts[j].kind = "Assign"
          /\ result.orig.code.stmts[j].value.kind = "Call"
          /\ ~Qualifies(result.orig.code.stmts[j])

====
